---- MODULE Spec2Model ----
(***************************************************************************)
(* LiteralDocumentReference of src/types.ts: a holder of a raw string      *)
(* referenceValue whose five getters each re-run parse(), which matches    *)
(* the URL `https://hostname/${referenceValue}` against a static           *)
(* URLPattern.                                                             *)
(*                                                                         *)
(* A text is a sequence of units.  A unit is a run of characters that      *)
(* holds no delimiter: a word ("projects", "my-proj", "LA") or one of the  *)
(* characters the URL parser treats specially ("/", "\\", "?", "#", " ",   *)
(* ".", "\t").  "%20" is the unit the parser writes for a space.           *)
(***************************************************************************)
EXTENDS Integers, Sequences, FiniteSets, TLC

VARIABLES objs, ctorArg, pattern, first, latest, ncalls

vars == <<objs, ctorArg, pattern, first, latest, ncalls>>

\* Longest document path, in segments, of the generated inputs.
MaxDocSegs == 4
\* Number of accessor calls in one behaviour.
MaxCalls == 3

Accessors == {"project_id", "database_id", "id", "collectionPath", "path"}

-----------------------------------------------------------------------------
(* String.prototype.split("/") and Array.prototype.join("/")               *)

firstSlash(text) ==
  IF \E k \in 1..Len(text) : text[k] = "/"
  THEN CHOOSE k \in 1..Len(text) : text[k] = "/" /\ \A j \in 1..(k-1) : text[j] # "/"
  ELSE 0

RECURSIVE split(_)
split(text) ==
  LET k == firstSlash(text)
  IN IF k = 0 THEN <<text>>
     ELSE <<SubSeq(text, 1, k-1)>> \o split(SubSeq(text, k+1, Len(text)))

RECURSIVE join(_)
join(parts) ==
  IF Len(parts) = 0 THEN <<>>
  ELSE IF Len(parts) = 1 THEN parts[1]
  ELSE parts[1] \o <<"/">> \o join(Tail(parts))

drop(text, n) == SubSeq(text, n+1, Len(text))

startsWith(text, prefix) ==
  Len(text) >= Len(prefix) /\ SubSeq(text, 1, Len(prefix)) = prefix

-----------------------------------------------------------------------------
(* new URL(`https://hostname/${referenceValue}`).pathname, as              *)
(* URLPattern.exec computes it for a string input (WHATWG URL parser,      *)
(* special scheme).                                                        *)

\* Leading and trailing C0 control or space is stripped from the input; the
\* input starts with "https", so only the end of referenceValue is affected.
RECURSIVE stripTrailing(_)
stripTrailing(text) ==
  IF Len(text) > 0 /\ text[Len(text)] \in {" ", "\t"}
  THEN stripTrailing(SubSeq(text, 1, Len(text) - 1))
  ELSE text

\* All ASCII tab or newline is removed from the input.
removeTabNewline(text) == SelectSeq(text, LAMBDA u : u # "\t")

\* UTF-8 percent-encode with the path percent-encode set.
percentEncode(u) == IF u = " " THEN "%20" ELSE u

SingleDot == <<".">>
DoubleDot == <<".", ".">>

\* Shorten a URL's path (scheme is not file).
shorten(path) == IF Len(path) = 0 THEN path ELSE SubSeq(path, 1, Len(path) - 1)

\* Path state of the URL parser; "?" and "#" leave it for the query and
\* fragment states, which add nothing to the path.
RECURSIVE pathState(_, _, _)
pathState(rest, path, buffer) ==
  LET c == IF rest = <<>> THEN "EOF" ELSE Head(rest)
      isSlash == c \in {"/", "\\"}
  IN IF c \in {"EOF", "/", "\\", "?", "#"}
     THEN LET newPath ==
                IF buffer = DoubleDot
                THEN (IF isSlash THEN shorten(path) ELSE Append(shorten(path), <<>>))
                ELSE IF buffer = SingleDot
                THEN (IF isSlash THEN path ELSE Append(path, <<>>))
                ELSE Append(path, buffer)
          IN IF isSlash THEN pathState(Tail(rest), newPath, <<>>) ELSE newPath
     ELSE pathState(Tail(rest), path, Append(buffer, percentEncode(c)))

\* The pathname of `https://hostname/${referenceValue}`: the "/" of the
\* template enters the path state, every segment is written after a "/".
pathname(referenceValue) ==
  <<"/">> \o join(pathState(removeTabNewline(stripTrailing(referenceValue)), <<>>, <<>>))

-----------------------------------------------------------------------------
(* The static URLPattern and its match of a pathname.                      *)

Fixed(value) == [type |-> "fixed", value |-> value, name |-> "", prefix |-> "", modifier |-> "none"]
Segment(name, modifier) ==
  [type |-> "segment", value |-> <<>>, name |-> name, prefix |-> "/", modifier |-> modifier]

\* new URLPattern({ pathname:
\*   `/projects/:project_id/databases/:database_id/documents/:document_path*` })
\* Components left out of the init (protocol, hostname, search, hash, ...)
\* are the wildcard "*" and match every URL.
LiteralDocumentReference_pattern ==
  [pathname |-> << Fixed(<<"/", "projects">>),  Segment("project_id", "none"),
                   Fixed(<<"/", "databases">>), Segment("database_id", "none"),
                   Fixed(<<"/", "documents">>), Segment("document_path", "zero-or-more") >>,
   others |-> "*"]

Undefined == [present |-> FALSE, text |-> <<>>]
Captured(text) == [present |-> TRUE, text |-> text]
\* !x of a captured group: undefined or the empty string.
falsy(g) == ~g.present \/ g.text = <<>>

\* A segment wildcard that also takes the empty segment, [^\/]*? .
segmentWildcard_star(text) == \A k \in 1..Len(text) : text[k] # "/"

\* The segment wildcard regexp [^\/]+? : one or more units, none a "/".
segmentWildcard(text) == Len(text) >= 1 /\ \A k \in 1..Len(text) : text[k] # "/"

\* (?:<prefix>((?:[^\/]+?)(?:<prefix>(?:[^\/]+?))*)) : the repeated form.
repeatedSegments(text, prefix) ==
  /\ Len(text) >= 1
  /\ text[1] = prefix
  /\ \A k \in 1..Len(split(Tail(text))) : segmentWildcard(split(Tail(text))[k])

NoMatch == [matched |-> FALSE, groups |-> <<>>]

\* The regular expression generated from the part list, anchored with ^ and $.
RECURSIVE matchParts(_, _, _)
matchParts(parts, text, groups) ==
  IF parts = <<>>
  THEN (IF text = <<>> THEN [matched |-> TRUE, groups |-> groups] ELSE NoMatch)
  ELSE LET part == Head(parts)
       IN IF part.type = "fixed"
          THEN (IF startsWith(text, part.value)
                THEN matchParts(Tail(parts), drop(text, Len(part.value)), groups)
                ELSE NoMatch)
          ELSE LET fits(n) ==
                     IF part.modifier = "none"
                     THEN n >= 1 /\ text[1] = part.prefix
                                 /\ segmentWildcard(SubSeq(text, 2, n))
                     ELSE n = 0 \/ repeatedSegments(SubSeq(text, 1, n), part.prefix)
                   value(n) == IF n = 0 THEN Undefined ELSE Captured(SubSeq(text, 2, n))
                   rest == [n \in {m \in 0..Len(text) : fits(m)} |->
                              matchParts(Tail(parts), drop(text, n),
                                         groups @@ (part.name :> value(n)))]
                   cand == {n \in DOMAIN rest : rest[n].matched}
               IN IF cand = {} THEN NoMatch
                  ELSE IF part.modifier = "none"
                  THEN rest[CHOOSE m \in cand : \A o \in cand : m <= o]
                  ELSE rest[CHOOSE m \in cand : \A o \in cand : m >= o]

\* LiteralDocumentReference.pattern.exec(`https://hostname/${referenceValue}`)
exec(pat, referenceValue) == matchParts(pat.pathname, pathname(referenceValue), <<>>)

\* An exec that leaves the shared pattern without its leading literal.
patternAfterExec_consumed(pat) == [pat EXCEPT !.pathname = Tail(@)]

\* exec leaves the static pattern as it was.
patternAfterExec(pat) == pat

-----------------------------------------------------------------------------
(* The class.                                                              *)

constructor(options) == [referenceValue |-> options.referenceValue]

ErrorMessage == <<"Invalid document path. Path does not match pattern.">>
Throw == [kind |-> "throw", value |-> ErrorMessage]
Return(text) == [kind |-> "return", value |-> text]

parse(self, pat) ==
  LET result == exec(pat, self.referenceValue)
  IN IF ~result.matched THEN [ok |-> FALSE]
     ELSE IF falsy(result.groups["project_id"]) THEN [ok |-> FALSE]
     ELSE IF falsy(result.groups["database_id"]) THEN [ok |-> FALSE]
     ELSE IF falsy(result.groups["document_path"]) THEN [ok |-> FALSE]
     ELSE [ok |-> TRUE,
           project_id |-> result.groups["project_id"].text,
           database_id |-> result.groups["database_id"].text,
           document_path |-> result.groups["document_path"].text]

\* A parse that writes the captured document path back into the instance.
thisAfterParse_writeBack(self, pat) ==
  LET p == parse(self, pat)
  IN IF p.ok THEN [self EXCEPT !.referenceValue = p.document_path] ELSE self

\* parse and the getters assign no field of the instance.
thisAfterParse(self, pat) == self

project_id(self, pat) ==
  LET p == parse(self, pat) IN IF p.ok THEN Return(p.project_id) ELSE Throw

database_id(self, pat) ==
  LET p == parse(self, pat) IN IF p.ok THEN Return(p.database_id) ELSE Throw

\* An id that takes the first part of the split path.
id_firstPart(self, pat) ==
  LET p == parse(self, pat)
  IN IF ~p.ok THEN Throw ELSE Return(split(p.document_path)[1])

id(self, pat) ==
  LET p == parse(self, pat)
  IN IF ~p.ok THEN Throw
     ELSE LET parts == split(p.document_path)
          IN Return(parts[Len(parts)])

collectionPath(self, pat) ==
  LET p == parse(self, pat)
  IN IF ~p.ok THEN Throw
     ELSE LET parts == split(p.document_path)
          IN Return(join(SubSeq(parts, 1, Len(parts) - 1)))

path(self, pat) ==
  LET p == parse(self, pat) IN IF p.ok THEN Return(p.document_path) ELSE Throw

-----------------------------------------------------------------------------
(* Inputs of the constructor.                                              *)

RECURSIVE SeqsUpTo(_, _)
SeqsUpTo(S, n) ==
  IF n = 0 THEN {<<>>}
  ELSE LET shorter == SeqsUpTo(S, n - 1)
       IN shorter \cup {Append(s, x) : s \in {t \in shorter : Len(t) = n - 1}, x \in S}

Cities == <<"cities">>
LA == <<"LA">>

DocPool == { Cities, LA, <<>> }

PrePool == { <<>>, << <<"x">> >>, << SingleDot >>, << DoubleDot >>, << <<>> >> }
LiteralPool == { << <<"projects">>, <<"databases">>, <<"documents">> >>,
                 << <<"x">>,        <<"databases">>, <<"documents">> >>,
                 << <<"projects">>, <<"x">>,         <<"documents">> >>,
                 << <<"projects">>, <<"databases">>, <<"x">> >>,
                 << <<"projects">>, <<"databases">>, <<"documents", "x">> >> }
ProjectPool == { <<>>, <<"my-proj">>, <<"my", " ", "proj">>, DoubleDot, <<"a", "?", "b">> }
DatabasePool == { <<>>, <<"(default)">>, SingleDot, <<"d", "#">> }
TailPool == { <<"LA", "?", "x">>, <<"LA", "#", "f">>, <<"LA", " ">>, <<"L", " ", "A">>,
              <<"LA", "\\", "x">>, <<"L", "\t", "A">>, <<"?">> }

NominalHead == << <<"projects">>, <<"my-proj">>, <<"databases">>, <<"(default)">>, <<"documents">> >>

\* Document paths of every length, with empty segments, under the nominal head.
DocInputs == { join(NominalHead \o doc) : doc \in SeqsUpTo(DocPool, MaxDocSegs) }

\* Segments before "projects" and wrong literals.
LiteralInputs ==
  { join(pre \o <<l[1], <<"my-proj">>, l[2], <<"(default)">>, l[3], Cities, LA>>) :
      pre \in PrePool, l \in LiteralPool }

\* Project and database segments of every shape.
NameInputs ==
  { join(<< <<"projects">>, p, <<"databases">>, d, <<"documents">>, Cities, LA >>) :
      p \in ProjectPool, d \in DatabasePool }

\* A dot segment at every place of a document path.
DotInputs ==
  { join(NominalHead \o a \o <<dot>> \o b) :
      a \in { <<>>, <<Cities>>, <<Cities, LA>> },
      dot \in { SingleDot, DoubleDot },
      b \in { <<>>, <<Cities>>, <<Cities, LA>> } }

\* Characters the URL parser treats specially, in the last segment.
TailInputs ==
  { join(NominalHead \o doc \o <<last>>) :
      doc \in { <<>>, <<Cities>> }, last \in TailPool }

Inputs == DocInputs \cup LiteralInputs \cup NameInputs \cup DotInputs \cup TailInputs
          \cup { <<>>, <<"not-a-valid-path">> }

ConcInputs ==
  { join(NominalHead \o doc) :
      doc \in { <<Cities, LA>>, <<Cities, <<"L", " ", "A">> >> } }
  \cup { <<"not-a-valid-path">> }

-----------------------------------------------------------------------------
(* State.                                                                  *)

NotCalled == [kind |-> "none", value |-> <<>>]
Idle == [inst |-> 0, accessor |-> "", outcome |-> NotCalled]

InitWith(instances, contexts, inputs) ==
  /\ ctorArg \in [instances -> inputs]
  /\ objs = [i \in instances |-> constructor([referenceValue |-> ctorArg[i]])]
  /\ pattern = LiteralDocumentReference_pattern
  /\ first = [i \in instances |-> [a \in Accessors |-> NotCalled]]
  /\ latest = [c \in contexts |-> Idle]
  /\ ncalls = 0

Init == InitWith({1}, {"t1"}, Inputs)

InitConc == InitWith({1, 2}, {"t1", "t2"}, ConcInputs)

\* The call's outcome as its caller sees it.
Record(c, i, a, outcome) ==
  /\ first' = IF first[i][a] = NotCalled THEN [first EXCEPT ![i][a] = outcome] ELSE first
  /\ latest' = [latest EXCEPT ![c] = [inst |-> i, accessor |-> a, outcome |-> outcome]]

\* Context c reads accessor a of instance i; outcome is what the getter
\* returns or throws.
Call(c, i, a, result) ==
  /\ ncalls < MaxCalls
  /\ \E outcome \in {result} : Record(c, i, a, outcome)
  /\ objs' = [objs EXCEPT ![i] = thisAfterParse(objs[i], pattern)]
  /\ pattern' = patternAfterExec(pattern)
  /\ ncalls' = ncalls + 1
  /\ UNCHANGED ctorArg

GetProjectId(c, i) == Call(c, i, "project_id", project_id(objs[i], pattern))
GetDatabaseId(c, i) == Call(c, i, "database_id", database_id(objs[i], pattern))
GetId(c, i) == Call(c, i, "id", id(objs[i], pattern))
GetCollectionPath(c, i) == Call(c, i, "collectionPath", collectionPath(objs[i], pattern))
GetPath(c, i) == Call(c, i, "path", path(objs[i], pattern))

Next ==
  \E c \in DOMAIN latest, i \in DOMAIN objs :
    \/ GetProjectId(c, i)
    \/ GetDatabaseId(c, i)
    \/ GetId(c, i)
    \/ GetCollectionPath(c, i)
    \/ GetPath(c, i)

Spec == Init /\ [][Next]_vars

SpecConc == InitConc /\ [][Next]_vars

-----------------------------------------------------------------------------
(* Properties.                                                             *)

\* The accessor calls that have completed, one per calling context.
Completed == { latest[c] : c \in DOMAIN latest } \ { Idle }

raw(l) == ctorArg[l.inst]

getter(a, self, pat) ==
  CASE a = "project_id" -> project_id(self, pat)
    [] a = "database_id" -> database_id(self, pat)
    [] a = "id" -> id(self, pat)
    [] a = "collectionPath" -> collectionPath(self, pat)
    [] a = "path" -> path(self, pat)

\* The three literals stand at segments 1, 3 and 5 of the raw string.
LiteralsInPlace(segs) ==
  /\ Len(segs) >= 5
  /\ segs[1] = <<"projects">>
  /\ segs[3] = <<"databases">>
  /\ segs[5] = <<"documents">>

\* A unit that URL parsing leaves as it is.
PlainUnit(u) == u \notin {"/", "\\", "?", "#", " ", ".", "\t", "%20"}
PlainSegment(seg) == seg # <<>> /\ \A k \in 1..Len(seg) : PlainUnit(seg[k])

\* A segment that can name a project, database, collection or document:
\* not empty, and not "." or "..", which no such name may be.
NameSegment(seg) == seg \notin {<<>>, SingleDot, DoubleDot}

\* projects/P/databases/D/documents/C1/I1 with P, D, C1, I1 name segments.
TwoSegmentForm(s) ==
  LET segs == split(s)
  IN LiteralsInPlace(segs) /\ Len(segs) = 7 /\ \A k \in {2, 4, 6, 7} : NameSegment(segs[k])

\* projects/P/databases/D/documents/S with P, D, S name segments.
SingleSegmentForm(s) ==
  LET segs == split(s)
  IN LiteralsInPlace(segs) /\ Len(segs) = 6 /\ \A k \in {2, 4, 6} : NameSegment(segs[k])

\* The grammar projects/<project>/databases/<database>/documents/<document_path>
\* with none of the three captures empty or absent.
GrammarOK(s) ==
  LET segs == split(s)
  IN /\ LiteralsInPlace(segs)
     /\ Len(segs) >= 6
     /\ segs[2] # <<>>
     /\ segs[4] # <<>>
     /\ join(SubSeq(segs, 6, Len(segs))) # <<>>

endsWith(text, suffix) ==
  Len(text) >= Len(suffix) /\ SubSeq(text, Len(text) - Len(suffix) + 1, Len(text)) = suffix

\* C1: for every referenceValue projects/P/databases/D/documents/C1/I1 with
\* non-empty, slash-free P, D, C1, I1, the accessors return project_id = P,
\* database_id = D, path = C1/I1, id = I1 and collectionPath = C1.
C1_TwoSegmentDecomposition ==
  \A l \in Completed :
    TwoSegmentForm(raw(l)) =>
      LET segs == split(raw(l))
      IN l.outcome =
           Return(CASE l.accessor = "project_id" -> segs[2]
                    [] l.accessor = "database_id" -> segs[4]
                    [] l.accessor = "path" -> segs[6] \o <<"/">> \o segs[7]
                    [] l.accessor = "id" -> segs[7]
                    [] l.accessor = "collectionPath" -> segs[6])

\* C2: construction succeeds for every string, and if the string does not
\* match the grammar, or matches with an empty or absent capture, each
\* accessor raises the malformed-reference error.
C2_MalformedAlwaysRaises ==
  \A l \in Completed : ~GrammarOK(raw(l)) => l.outcome = Throw

C4_SameOutcomeAsFirstCall ==
  \A l \in Completed : l.outcome = first[l.inst][l.accessor]

C4_Witness ==
  \E l \in Completed :
    /\ ncalls >= 2
    /\ Cardinality({ a \in Accessors : first[l.inst][a] # NotCalled }) = 1
    /\ raw(l) = <<"not-a-valid-path">>
    /\ l.outcome = Throw

\* C5: the accessors succeed only if the whole referenceValue, first to last
\* character, is projects/<segment>/databases/<segment>/documents/<segments>,
\* with nothing before "projects" and nothing after the captured path.
C5_AnchoredToWholeString ==
  \A l \in Completed :
    l.outcome.kind = "return" =>
      LET segs == split(raw(l))
      IN /\ LiteralsInPlace(segs)
         /\ Len(segs) >= 6
         /\ \A k \in {2, 4} \cup 6..Len(segs) : segs[k] # <<>>
         /\ l.accessor = "path" => endsWith(raw(l), l.outcome.value)

\* C6: when the accessors succeed, "projects/" + project_id + "/databases/" +
\* database_id + "/documents/" + path is the referenceValue, character for
\* character.
C6_PathIsRawSuffix ==
  \A i \in DOMAIN first :
    LET f == first[i]
    IN (f["project_id"].kind = "return" /\ f["database_id"].kind = "return"
          /\ f["path"].kind = "return") =>
         ctorArg[i] = <<"projects", "/">> \o f["project_id"].value
                        \o <<"/", "databases", "/">> \o f["database_id"].value
                        \o <<"/", "documents", "/">> \o f["path"].value

\* C7: no accessor call, returning or raising, changes the referenceValue
\* given to the constructor, any other state of the instance, or the static
\* pattern of the class.
C7_NothingIsMutated ==
  /\ \A i \in DOMAIN objs : objs[i] = [referenceValue |-> ctorArg[i]]
  /\ pattern = LiteralDocumentReference_pattern

C7_Witness ==
  \E i \in DOMAIN first :
    /\ Cardinality({ a \in Accessors : first[i][a].kind = "return" }) >= 2
    /\ ncalls >= 3

\* C8: under every interleaving of the contexts' calls, on one instance or on
\* instances sharing the static pattern, each call returns or raises what it
\* does when it runs alone on a fresh instance of the same referenceValue.
C8_OutcomeAsWhenAlone ==
  \A l \in Completed :
    l.outcome = getter(l.accessor, constructor([referenceValue |-> raw(l)]),
                       LiteralDocumentReference_pattern)

C8_Witness ==
  /\ latest["t1"].inst = 1
  /\ latest["t2"].inst = 1
  /\ latest["t1"].outcome.kind = "return"
  /\ latest["t2"].outcome.kind = "return"
  /\ first[2]["id"].kind = "throw"

\* C9: for projects/P/databases/D/documents/S with a single segment S no
\* accessor raises: id returns S, path returns S, collectionPath returns "".
C9_SingleSegmentPath ==
  \A l \in Completed :
    SingleSegmentForm(raw(l)) =>
      /\ l.outcome.kind = "return"
      /\ l.accessor \in {"id", "path"} => l.outcome.value = split(raw(l))[6]
      /\ l.accessor = "collectionPath" => l.outcome.value = <<>>

\* The project and database segments are plain, and every segment of the
\* document path is plain or empty.
PlainReference(s) ==
  LET segs == split(s)
  IN /\ LiteralsInPlace(segs)
     /\ Len(segs) >= 6
     /\ PlainSegment(segs[2])
     /\ PlainSegment(segs[4])
     /\ \A k \in 6..Len(segs) : segs[k] = <<>> \/ PlainSegment(segs[k])

DocSegments(s) == SubSeq(split(s), 6, Len(split(s)))
HasEmptySegment(doc) == \E k \in 1..Len(doc) : doc[k] = <<>>
Odd(n) == n % 2 = 1

====
